---- MODULE Spec2Model ----
(***************************************************************************)
(* Community calendar backend: the credential store with its registration  *)
(* handler, the event store with the event lifecycle and interaction       *)
(* handlers, the admin console's deleting handlers and the createAdmin     *)
(* script. A handler is a sequence of steps, one for each of its store     *)
(* calls; the steps of requests in flight interleave.                      *)
(*                                                                         *)
(* Strings are sequences of one-character strings, so that trimming, case  *)
(* folding and the regular expression the registration handler builds from *)
(* the username are computed, not assumed.                                 *)
(***************************************************************************)
EXTENDS Integers, Sequences, FiniteSets, TLC

\* Bounds of the model (ids are never reused, so these cap what is ever created).
MaxUsers == 3
MaxEvents == 2
MaxInflight == 2
MaxClock == 2
InteractEvents == 1
MaxVersion == 3

VARIABLES
  users,        \* credential store: user id -> user record
  nextUserId,   \* next fresh user id
  events,       \* event store: event id -> event record
  nextEventId,  \* next fresh event id
  res,          \* the response to the last request
  inflight,     \* registration requests, in flight or answered
  now,          \* the clock new Date() reads
  pending       \* the other requests in flight, each at a store call

vars == <<users, nextUserId, events, nextEventId, res, inflight, now, pending>>

(***************************************************************************)
(* Strings                                                                 *)
(***************************************************************************)
ToLowerChar(c) ==
  CASE c = "A" -> "a"
    [] c = "B" -> "b"
    [] c = "O" -> "o"
    [] OTHER -> c

toLowerCase(s) == [i \in 1..Len(s) |-> ToLowerChar(s[i])]

SetMin(S) == CHOOSE x \in S : \A y \in S : x <= y
SetMax(S) == CHOOSE x \in S : \A y \in S : x >= y

trim(s) ==
  LET keep == {i \in 1..Len(s) : s[i] # " "}
  IN IF keep = {} THEN <<>> ELSE SubSeq(s, SetMin(keep), SetMax(keep))

IsDigit(c) == c \in {"0", "1", "2", "3", "4", "5", "6", "7", "8", "9"}

(***************************************************************************)
(* new RegExp(`^${username}$`, 'i'): the username is spliced in unescaped, *)
(* so "." and "+" in it are metacharacters.  A "+" with nothing to repeat  *)
(* makes the constructor throw a SyntaxError.                              *)
(***************************************************************************)
RECURSIVE ParseAtoms(_, _, _)
ParseAtoms(p, i, acc) ==
  IF i > Len(p) THEN [ok |-> TRUE, atoms |-> acc]
  ELSE IF p[i] = "+"
       THEN IF acc = <<>> \/ acc[Len(acc)].plus
            THEN [ok |-> FALSE, atoms |-> <<>>]
            ELSE ParseAtoms(p, i + 1, [acc EXCEPT ![Len(acc)].plus = TRUE])
       ELSE ParseAtoms(p, i + 1, Append(acc, [ch |-> p[i], plus |-> FALSE]))

NewRegExp(username) == ParseAtoms(username, 1, <<>>)

CharMatch(c, x) == c = "." \/ ToLowerChar(c) = ToLowerChar(x)

RECURSIVE MatchAtoms(_, _, _, _)
MatchAtoms(atoms, k, s, j) ==
  IF k > Len(atoms) THEN j = Len(s) + 1
  ELSE IF atoms[k].plus
       THEN \E n \in 1..(Len(s) - j + 1) :
              /\ \A m \in j..(j + n - 1) : CharMatch(atoms[k].ch, s[m])
              /\ MatchAtoms(atoms, k + 1, s, j + n)
       ELSE /\ j <= Len(s)
            /\ CharMatch(atoms[k].ch, s[j])
            /\ MatchAtoms(atoms, k + 1, s, j + 1)

RegexTest(rx, s) == MatchAtoms(rx.atoms, 1, s, 1)

(***************************************************************************)
(* Registration: registerSchema, the handler's normalisation, the lookup   *)
(* and the insert.                                                         *)
(***************************************************************************)
ValidEmail(e) ==
  LET at == {i \in 1..Len(e) : e[i] = "@"}
  IN /\ Cardinality(at) = 1
     /\ \E i \in at :
          /\ i > 1
          /\ \E d \in (i + 2)..(Len(e) - 1) : e[d] = "."
     /\ \A i \in 1..Len(e) : e[i] # " "

ValidZip(z) ==
  \/ Len(z) = 5 /\ \A i \in 1..5 : IsDigit(z[i])
  \/ /\ Len(z) = 10
     /\ z[6] = "-"
     /\ \A i \in (1..10) \ {6} : IsDigit(z[i])

registerSchema(body) ==
  /\ Len(body.username) >= 3 /\ Len(body.username) <= 30
  /\ ValidEmail(body.email)
  /\ Len(body.password) >= 6 /\ Len(body.password) <= 100
  /\ ValidZip(body.zipcode)

NormUsername(body) == trim(body.username)
NormEmail(body) == trim(toLowerCase(body.email))

\* The password hash the user model stores in place of the plaintext.
HashPassword(pw) == <<"#">> \o pw

\* User.findOne({$or: [{email}, {username: {$regex}}]}) over a store U.
FindExisting(U, email, rx) ==
  {id \in DOMAIN U : U[id].email = email \/ RegexTest(rx, U[id].username)}

\* The unique indexes of the users collection: username and email are each
\* unique under case-insensitive comparison; the set of index fields a
\* document would violate.
DuplicateKeys(U, username, email) ==
  (IF \E id \in DOMAIN U : toLowerCase(U[id].email) = toLowerCase(email)
   THEN {"email"} ELSE {})
  \cup (IF \E id \in DOMAIN U : toLowerCase(U[id].username) = toLowerCase(username)
        THEN {"username"} ELSE {})

NoLookup == [kind |-> "none", username |-> <<>>, email |-> <<>>,
             password |-> <<>>, zipcode |-> <<>>]

\* The handler up to the return of findOne: what it holds when it resumes.
RegisterLookup(U, body) ==
  IF ~registerSchema(body)
  THEN {[NoLookup EXCEPT !.kind = "invalid"]}
  ELSE LET username == NormUsername(body)
           email == NormEmail(body)
           rx == NewRegExp(username)
           mine == [kind |-> "free", username |-> username, email |-> email,
                    password |-> body.password, zipcode |-> trim(body.zipcode)]
       IN IF ~rx.ok
          THEN {[mine EXCEPT !.kind = "threw"]}
          ELSE LET found == FindExisting(U, email, rx)
               IN IF found = {}
                  THEN {mine}
                  ELSE {[mine EXCEPT !.kind =
                           IF U[id].email = email THEN "emailTaken" ELSE "usernameTaken"]
                        : id \in found}

\* lastLogin of an account that never logged in (null).
Never == 0

NewUser(l) ==
  [username |-> l.username, email |-> l.email,
   password |-> HashPassword(l.password), zipcode |-> l.zipcode,
   isAdmin |-> FALSE, lastLogin |-> Never]

Response(op, status, msg) == [op |-> op, status |-> status, msg |-> msg]

\* RegisterFinish without the branch for the store's duplicate-key error.
RegisterFinishUnhandledDuplicate(U, nid, l) ==
  CASE l.kind = "invalid" ->
         {[users |-> U, nextUserId |-> nid, res |-> Response("register", 400, "validation")]}
    [] l.kind = "threw" ->
         {[users |-> U, nextUserId |-> nid, res |-> Response("register", 500, "unable")]}
    [] l.kind = "emailTaken" ->
         {[users |-> U, nextUserId |-> nid, res |-> Response("register", 409, "email")]}
    [] l.kind = "usernameTaken" ->
         {[users |-> U, nextUserId |-> nid, res |-> Response("register", 409, "username")]}
    [] OTHER ->
         LET dup == DuplicateKeys(U, l.username, l.email)
         IN IF dup # {}
            THEN {[users |-> U, nextUserId |-> nid, res |-> Response("register", 500, "unable")]}
            ELSE IF nid > MaxUsers THEN {}
            ELSE {[users |-> (nid :> NewUser(l)) @@ U, nextUserId |-> nid + 1,
                   res |-> Response("register", 201, "created")]}

\* The handler from the return of findOne to the response: the outcomes
\* [users, nextUserId, res] over a store U.
RegisterFinish(U, nid, l) ==
  CASE l.kind = "invalid" ->
         {[users |-> U, nextUserId |-> nid, res |-> Response("register", 400, "validation")]}
    [] l.kind = "threw" ->
         {[users |-> U, nextUserId |-> nid, res |-> Response("register", 500, "unable")]}
    [] l.kind = "emailTaken" ->
         {[users |-> U, nextUserId |-> nid, res |-> Response("register", 409, "email")]}
    [] l.kind = "usernameTaken" ->
         {[users |-> U, nextUserId |-> nid, res |-> Response("register", 409, "username")]}
    [] OTHER ->
         LET dup == DuplicateKeys(U, l.username, l.email)
         IN IF dup # {}
            THEN {[users |-> U, nextUserId |-> nid, res |-> Response("register", 409, f)]
                  : f \in dup}
            ELSE IF nid > MaxUsers THEN {}
            ELSE {[users |-> (nid :> NewUser(l)) @@ U, nextUserId |-> nid + 1,
                   res |-> Response("register", 201, "created")]}

(***************************************************************************)
(* Login                                                                   *)
(***************************************************************************)
loginSchema(body) == ValidEmail(body.email) /\ Len(body.password) >= 1

\* user.comparePassword(candidate)
ComparePassword(stored, candidate) == stored = HashPassword(candidate)

\* User.findOne({email}): the ids the query matches.
FindByEmail(U, email) == {id \in DOMAIN U : U[id].email = email}

\* LoginLookup answering an unknown email with a message of its own.
LoginLookupNamesEmail(U, body) ==
  IF ~loginSchema(body)
  THEN [status |-> 400, msg |-> "validation", id |-> 0]
  ELSE LET found == FindByEmail(U, NormEmail(body))
       IN IF found = {}
          THEN [status |-> 401, msg |-> "unknown email", id |-> 0]
          ELSE [status |-> 0, msg |-> "", id |-> SetMin(found)]

\* The login handler from its validation to User.findOne, over a store U:
\* the status and message it answers with, or status 0 and the id of the
\* user it found.
LoginLookup(U, body) ==
  IF ~loginSchema(body)
  THEN [status |-> 400, msg |-> "validation", id |-> 0]
  ELSE LET found == FindByEmail(U, NormEmail(body))
       IN IF found = {}
          THEN [status |-> 401, msg |-> "invalid", id |-> 0]
          ELSE [status |-> 0, msg |-> "", id |-> SetMin(found)]

\* The login handler from comparePassword to its test, on the user it
\* loaded: the status and message it answers with, or status 0.
LoginCheck(user, password) ==
  IF ~ComparePassword(user.password, password)
  THEN [status |-> 401, msg |-> "invalid"]
  ELSE [status |-> 0, msg |-> ""]

(***************************************************************************)
(* Inputs                                                                  *)
(***************************************************************************)
GoodPassword == <<"s", "e", "c", "r", "e", "t">>
GoodZip == <<"1", "2", "3", "4", "5">>
Body(u, e) == [username |-> u, email |-> e, password |-> GoodPassword, zipcode |-> GoodZip]

RegUsernames ==
  { <<"b", "o", "b">>, <<"B", "o", "b">>, <<"b", "o", "b", " ">>,
    <<"b", "+", "b">>, <<"B", "+", "b">>, <<"b", ".", "b">>,
    <<"+", "b", "b">>, <<"b", "o">> }
RegEmails ==
  { <<"a", "@", "x", ".", "i", "o">>, <<"A", "@", "x", ".", "i", "o">>,
    <<"b", "@", "x", ".", "i", "o">>, <<"a", "x", ".", "i", "o">> }

RegBodies ==
  {Body(u, e) : u \in RegUsernames, e \in RegEmails}
  \cup {[Body(<<"b", "o", "b">>, <<"a", "@", "x", ".", "i", "o">>) EXCEPT !.password = <<"p", "w">>],
        [Body(<<"b", "o", "b">>, <<"a", "@", "x", ".", "i", "o">>) EXCEPT !.zipcode = <<"1", "2">>]}

(***************************************************************************)
(* Authorization guard (middleware/auth): a request carries the id of the  *)
(* user its token names, or 0 when it carries no valid token.              *)
(***************************************************************************)
Anonymous == 0
\* Who may send a request: nobody's token, or the token of an id ever issued.
Callers == {Anonymous} \cup (1..(nextUserId - 1))

\* auth: the token names a user the store still holds.
Authenticated(c) == c \in DOMAIN users
\* adminAuth: 0 when the request passes, else the status it is rejected with.
AdminAuthStatus(c) ==
  IF ~Authenticated(c) THEN 401
  ELSE IF ~users[c].isAdmin THEN 403
  ELSE 0

(***************************************************************************)
(* Events: eventSchema, the Event document and the handlers.               *)
(***************************************************************************)
Categories ==
  {"general", "garage_sale", "sports", "church", "town_meeting", "community",
   "fundraiser", "workshop", "festival"}

EventKeys ==
  {"title", "description", "category", "date", "time", "location",
   "contact_info", "image_url", "max_capacity", "tags"}

DatePattern(d) ==
  /\ Len(d) = 10
  /\ \A i \in 1..10 : IF i \in {5, 8} THEN d[i] = "-" ELSE IsDigit(d[i])

\* eventSchema letting keys it does not know pass.
eventSchemaAllowUnknown(body) ==
  /\ Len(body.title) >= 3 /\ Len(body.title) <= 100
  /\ body.category \in Categories
  /\ DatePattern(body.date)
  /\ Len(body.location) >= 1 /\ Len(body.location) <= 200

\* A request body: the four required fields, the keys it carries, and the
\* values it gives to attendees_going and organizer_id when it carries them.
eventSchema(body) ==
  /\ Len(body.title) >= 3 /\ Len(body.title) <= 100
  /\ body.category \in Categories
  /\ DatePattern(body.date)
  /\ Len(body.location) >= 1 /\ Len(body.location) <= 200
  /\ body.keys \subseteq EventKeys

\* new Event({...req.body, organizer, organizer_id}) with the schema's defaults;
\* t is the time of the clock.
NewEvent(body, uid, username, t) ==
  [title |-> body.title, category |-> body.category, date |-> body.date,
   location |-> body.location,
   organizer |-> username, organizer_id |-> uid,
   attendees_going |->
     IF "attendees_going" \in body.keys THEN body.attendees_going ELSE 0,
   attendees_interested |-> 0,
   rsvps |-> <<>>, favorites |-> <<>>, comments |-> <<>>, updated_at |-> t,
   version |-> 0]

\* Object.assign(event, req.body)
AssignBody(ev, body) ==
  [ev EXCEPT !.title = body.title, !.category = body.category,
             !.date = body.date, !.location = body.location,
             !.attendees_going =
               IF "attendees_going" \in body.keys THEN body.attendees_going ELSE @,
             !.organizer_id =
               IF "organizer_id" \in body.keys THEN body.organizer_id ELSE @]

RemoveAt(s, i) == SubSeq(s, 1, i - 1) \o SubSeq(s, i + 1, Len(s))

\* Array.prototype.findIndex over the positions the callback accepts,
\* 1-based; 0 stands for -1.
FindIndex(hits) == IF hits = {} THEN 0 ELSE SetMin(hits)

RsvpStatuses == {"going", "interested", "not_going", ""}

\* ApplyRsvp with the decrements of lines 181-182 left out.
ApplyRsvpNoDecrement(ev, uid, status) ==
  LET idx == FindIndex({i \in 1..Len(ev.rsvps) : ev.rsvps[i].user_id = uid})
      cleared == IF idx = 0 THEN ev ELSE [ev EXCEPT !.rsvps = RemoveAt(@, idx)]
  IN IF status # "" /\ status # "not_going"
     THEN [cleared EXCEPT
             !.rsvps = Append(@, [user_id |-> uid, status |-> status]),
             !.attendees_going = IF status = "going" THEN @ + 1 ELSE @,
             !.attendees_interested = IF status = "interested" THEN @ + 1 ELSE @]
     ELSE cleared

\* The RSVP handler's work on the loaded document, lines 173-195.
ApplyRsvp(ev, uid, status) ==
  LET idx == FindIndex({i \in 1..Len(ev.rsvps) : ev.rsvps[i].user_id = uid})
      old == IF idx = 0 THEN "" ELSE ev.rsvps[idx].status
      cleared ==
        IF idx = 0 THEN ev
        ELSE [ev EXCEPT
                !.attendees_going = IF old = "going" THEN @ - 1 ELSE @,
                !.attendees_interested = IF old = "interested" THEN @ - 1 ELSE @,
                !.rsvps = RemoveAt(@, idx)]
  IN IF status # "" /\ status # "not_going"
     THEN [cleared EXCEPT
             !.rsvps = Append(@, [user_id |-> uid, status |-> status]),
             !.attendees_going = IF status = "going" THEN @ + 1 ELSE @,
             !.attendees_interested = IF status = "interested" THEN @ + 1 ELSE @]
     ELSE cleared

\* The favorite handler's work on the loaded document, lines 220-231.
ApplyFavorite(ev, uid, is_favorited) ==
  LET favIndex == FindIndex({i \in 1..Len(ev.favorites) : ev.favorites[i] = uid})
  IN IF is_favorited /\ favIndex = 0
     THEN [ev EXCEPT !.favorites = Append(@, uid)]
     ELSE IF ~is_favorited /\ favIndex # 0
          THEN [ev EXCEPT !.favorites = RemoveAt(@, favIndex)]
          ELSE ev

Without(f, S) == [k \in (DOMAIN f) \ S |-> f[k]]

\* event.comments.push({...}), lines 265-270.
ApplyComment(ev, uid, username, text, t) ==
  [ev EXCEPT !.comments =
     Append(@, [user_id |-> uid, username |-> username, text |-> trim(text),
                created_at |-> t])]

(***************************************************************************)
(* document.save(): the store is sent the paths the handler assigned since *)
(* the load, not the document. A value the handler assigned is set; an     *)
(* element it pushed is appended to the stored array and the document's    *)
(* version is raised; an array it spliced is set as a whole, on condition  *)
(* that the stored version is the loaded one, and the version is raised.   *)
(* A save whose condition fails is refused (ok is FALSE) and writes        *)
(* nothing.                                                                *)
(***************************************************************************)
\* event.save() of the RSVP handler, line 197.
SaveRsvp(stored, loaded, uid, status) ==
  LET idx == FindIndex({i \in 1..Len(loaded.rsvps) : loaded.rsvps[i].user_id = uid})
      old == IF idx = 0 THEN "" ELSE loaded.rsvps[idx].status
      new == ApplyRsvp(loaded, uid, status)
      pushed == status # "" /\ status # "not_going"
      written ==
        [stored EXCEPT
           !.attendees_going =
             IF old = "going" \/ status = "going" THEN new.attendees_going ELSE @,
           !.attendees_interested =
             IF old = "interested" \/ status = "interested"
             THEN new.attendees_interested ELSE @,
           !.rsvps = IF idx # 0 THEN new.rsvps
                     ELSE IF pushed THEN Append(@, [user_id |-> uid, status |-> status])
                     ELSE @,
           !.version = IF idx # 0 \/ pushed THEN @ + 1 ELSE @]
  IN IF idx # 0 /\ stored.version # loaded.version
     THEN {[ok |-> FALSE, doc |-> stored]}
     ELSE {[ok |-> TRUE, doc |-> written]}

\* event.save() of the favorite handler, line 233.
SaveFavorite(stored, loaded, uid, is_favorited) ==
  LET new == ApplyFavorite(loaded, uid, is_favorited)
  IN IF Len(new.favorites) > Len(loaded.favorites)
     THEN {[ok |-> TRUE,
            doc |-> [stored EXCEPT !.favorites = Append(@, uid), !.version = @ + 1]]}
     ELSE IF Len(new.favorites) < Len(loaded.favorites)
     THEN IF stored.version # loaded.version
          THEN {[ok |-> FALSE, doc |-> stored]}
          ELSE {[ok |-> TRUE,
                 doc |-> [stored EXCEPT !.favorites = new.favorites, !.version = @ + 1]]}
     ELSE {[ok |-> TRUE, doc |-> stored]}

\* event.save() of the comment handler, line 272: the pushed comment.
SaveComment(stored, uid, username, text, t) ==
  [ApplyComment(stored, uid, username, text, t) EXCEPT !.version = @ + 1]

\* event.save() of the update handler, line 124: the fields Object.assign
\* changed, and updated_at.
SaveUpdate(stored, loaded, body, t) ==
  LET new == AssignBody(loaded, body)
  IN [stored EXCEPT
        !.title = IF new.title # loaded.title THEN new.title ELSE @,
        !.category = IF new.category # loaded.category THEN new.category ELSE @,
        !.date = IF new.date # loaded.date THEN new.date ELSE @,
        !.location = IF new.location # loaded.location THEN new.location ELSE @,
        !.attendees_going =
          IF new.attendees_going # loaded.attendees_going
          THEN new.attendees_going ELSE @,
        !.organizer_id =
          IF new.organizer_id # loaded.organizer_id THEN new.organizer_id ELSE @,
        !.updated_at = t]

(***************************************************************************)
(* The state the handlers work on.                                         *)
(***************************************************************************)
\* A registration request: what the handler holds (l), where it is (phase)
\* and, once it has answered, its response.
Idle == [phase |-> "idle", l |-> NoLookup, status |-> 0, msg |-> "none"]

NoDoc == <<>>

\* No request is in the slot.
NoRequest ==
  [phase |-> "idle", op |-> "none", c |-> 0, username |-> <<>>, id |-> 0,
   arg |-> "", doc |-> NoDoc, t |-> Never]

\* new User({username, email, password, zipcode, isAdmin: true}) as saved.
NewAdmin(a) ==
  [username |-> a.username, email |-> a.email,
   password |-> HashPassword(a.password), zipcode |-> a.zipcode,
   isAdmin |-> TRUE, lastLogin |-> Never]

\* What the operator answers to the prompts of createAdmin.
Answers(u, e, makeAdmin) ==
  [username |-> u, email |-> e, password |-> GoodPassword, zipcode |-> GoodZip,
   makeAdmin |-> makeAdmin]

\* The admin account createAdmin leaves in an empty store.
RootUser ==
  NewAdmin(Answers(<<"r", "o", "o", "t">>, <<"r", "@", "x", ".", "i", "o">>, FALSE))

\* The account a registration leaves in a store that has no such user.
Registered(body) == NewUser(CHOOSE l \in RegisterLookup(<<>>, body) : TRUE)
Bob == Registered(Body(<<"b", "o", "b">>, <<"b", "@", "x", ".", "i", "o">>))

\* No event, no request, and the accounts U, the next of which gets id n.
Start(U, n) ==
  /\ users = U
  /\ nextUserId = n
  /\ events = <<>>
  /\ nextEventId = 1
  /\ res = Response("none", 0, "none")
  /\ inflight = [p \in 1..MaxInflight |-> Idle]
  /\ now = 1
  /\ pending = [p \in 1..MaxInflight |-> NoRequest]

\* The store after createAdmin has run on an empty one.
Init == Start(1 :> RootUser, 2)

\* The store after bob has registered.
InitPair == Start((1 :> RootUser) @@ (2 :> Bob), 3)

\* POST /api/auth/register up to the call of user.save(): validation, the
\* normalisation, new RegExp, User.findOne and the 409 of a user found.
RegisterFind(p, body) ==
  /\ inflight[p].phase \in {"idle", "done"}
  /\ \E l \in RegisterLookup(users, body) :
       IF l.kind = "free"
       THEN /\ inflight' = [inflight EXCEPT ![p] = [Idle EXCEPT !.phase = "looked", !.l = l]]
            /\ UNCHANGED res
       ELSE \E o \in RegisterFinish(users, nextUserId, l) :
              /\ res' = o.res
              /\ inflight' = [inflight EXCEPT ![p] =
                                [phase |-> "done", l |-> l, status |-> o.res.status,
                                 msg |-> o.res.msg]]
  /\ UNCHANGED <<users, nextUserId, events, nextEventId, now, pending>>

\* POST /api/auth/register: user.save() and the response.
RegisterSave(p) ==
  /\ inflight[p].phase = "looked"
  /\ \E o \in RegisterFinish(users, nextUserId, inflight[p].l) :
       /\ users' = o.users
       /\ nextUserId' = o.nextUserId
       /\ res' = o.res
       /\ inflight' = [inflight EXCEPT ![p] =
                         [@ EXCEPT !.phase = "done", !.status = o.res.status,
                                   !.msg = o.res.msg]]
  /\ UNCHANGED <<events, nextEventId, now, pending>>

(***************************************************************************)
(* Requests in flight. A handler runs without interruption from one store  *)
(* call to the next; between two of its store calls the steps of other     *)
(* requests may run. A step below is one store call together with the      *)
(* handler code that follows it up to the next store call or the response. *)
(* A slot of pending holds a request from its first step to its response.  *)
(***************************************************************************)
Free(p) == pending[p].phase = "idle"

\* A request as it arrives: its route (op), the caller its token names (c),
\* the :id of its path (id) and its body (arg).
Request(op, c, id, arg) ==
  [NoRequest EXCEPT !.op = op, !.c = c, !.id = id, !.arg = arg]

\* res.status(status).json(...) ends the request of slot p.
Respond(p, r, status, msg) ==
  /\ pending' = [pending EXCEPT ![p] = NoRequest]
  /\ res' = Response(r.op, status, msg)

\* The handler of slot p goes on to its next store call.
Suspend(p, r) ==
  /\ pending' = [pending EXCEPT ![p] = r]
  /\ UNCHANGED res

\* The clock after a handler has read it.
Tick == now + 1

\* auth: User.findById of the caller, before the handler runs.
Auth(p, op, c, id, arg) ==
  /\ Free(p)
  /\ LET r == Request(op, c, id, arg)
     IN IF ~Authenticated(c)
        THEN Respond(p, r, 401, "")
        ELSE Suspend(p, [r EXCEPT !.phase = "authed",
                                  !.username = users[c].username])
  /\ UNCHANGED <<users, nextUserId, events, nextEventId, inflight, now>>

\* adminAuth: User.findById of the caller and the isAdmin test.
AdminAuth(p, op, c, id) ==
  /\ Free(p)
  /\ LET r == Request(op, c, id, "")
     IN IF AdminAuthStatus(c) # 0
        THEN Respond(p, r, AdminAuthStatus(c), "")
        ELSE Suspend(p, [r EXCEPT !.phase = "authed",
                                  !.username = users[c].username])
  /\ UNCHANGED <<users, nextUserId, events, nextEventId, inflight, now>>

At(p, op, phase) == pending[p].op = op /\ pending[p].phase = phase

\* POST /api/events: validation and event.save().
CreateSave(p) ==
  /\ At(p, "createEvent", "authed")
  /\ LET r == pending[p]
     IN IF ~eventSchema(r.arg)
        THEN Respond(p, r, 400, "") /\ UNCHANGED <<events, nextEventId>>
        ELSE /\ nextEventId <= MaxEvents
             /\ events' = (nextEventId :> NewEvent(r.arg, r.c, r.username, now)) @@ events
             /\ nextEventId' = nextEventId + 1
             /\ Respond(p, r, 201, "")
  /\ UNCHANGED <<users, nextUserId, inflight, now>>

\* PUT /api/events/:id up to the call of event.save(): validation,
\* Event.findById, the ownership test, Object.assign and new Date().
UpdateLoad(p) ==
  /\ At(p, "updateEvent", "authed")
  /\ LET r == pending[p]
     IN IF ~eventSchema(r.arg)
        THEN Respond(p, r, 400, "") /\ UNCHANGED now
        ELSE IF r.id \notin DOMAIN events
        THEN Respond(p, r, 404, "") /\ UNCHANGED now
        ELSE IF events[r.id].organizer_id # r.c
        THEN Respond(p, r, 403, "") /\ UNCHANGED now
        ELSE /\ now <= MaxClock
             /\ Suspend(p, [r EXCEPT !.phase = "loaded", !.doc = events[r.id],
                                     !.t = now])
             /\ now' = Tick
  /\ UNCHANGED <<users, nextUserId, events, nextEventId, inflight>>

\* PUT /api/events/:id: event.save() and the response.
UpdateSave(p) ==
  /\ At(p, "updateEvent", "loaded")
  /\ LET r == pending[p]
     IN IF r.id \notin DOMAIN events
        THEN Respond(p, r, 500, "") /\ UNCHANGED events
        ELSE /\ events' = [events EXCEPT ![r.id] = SaveUpdate(@, r.doc, r.arg, r.t)]
             /\ Respond(p, r, 200, "")
  /\ UNCHANGED <<users, nextUserId, nextEventId, inflight, now>>

\* DeleteLoad removing the event before it tests the ownership.
DeleteLoadRemovingFirst(p) ==
  /\ At(p, "deleteEvent", "authed")
  /\ LET r == pending[p]
     IN /\ events' = Without(events, {r.id})
        /\ IF r.id \notin DOMAIN events THEN Respond(p, r, 404, "")
           ELSE IF events[r.id].organizer_id # r.c THEN Respond(p, r, 403, "")
           ELSE Respond(p, r, 204, "")
  /\ UNCHANGED <<users, nextUserId, nextEventId, inflight, now>>

\* DELETE /api/events/:id: Event.findById and the ownership test.
DeleteLoad(p) ==
  /\ At(p, "deleteEvent", "authed")
  /\ LET r == pending[p]
     IN IF r.id \notin DOMAIN events THEN Respond(p, r, 404, "")
        ELSE IF events[r.id].organizer_id # r.c THEN Respond(p, r, 403, "")
        ELSE Suspend(p, [r EXCEPT !.phase = "loaded"])
  /\ UNCHANGED <<users, nextUserId, events, nextEventId, inflight, now>>

\* DELETE /api/events/:id: Event.findByIdAndDelete and the response.
DeleteRemove(p) ==
  /\ At(p, "deleteEvent", "loaded")
  /\ events' = Without(events, {pending[p].id})
  /\ Respond(p, pending[p], 204, "")
  /\ UNCHANGED <<users, nextUserId, nextEventId, inflight, now>>

\* POST /api/events/:id/rsvp up to the call of event.save().
RsvpLoad(p) ==
  /\ At(p, "rsvp", "authed")
  /\ LET r == pending[p]
     IN IF r.arg \notin RsvpStatuses THEN Respond(p, r, 400, "")
        ELSE IF r.id \notin DOMAIN events THEN Respond(p, r, 404, "")
        ELSE /\ events[r.id].version < MaxVersion
             /\ Suspend(p, [r EXCEPT !.phase = "loaded", !.doc = events[r.id]])
  /\ UNCHANGED <<users, nextUserId, events, nextEventId, inflight, now>>

\* POST /api/events/:id/rsvp: event.save() and the response.
RsvpSave(p) ==
  /\ At(p, "rsvp", "loaded")
  /\ LET r == pending[p]
     IN IF r.id \notin DOMAIN events
        THEN Respond(p, r, 500, "") /\ UNCHANGED events
        ELSE \E w \in SaveRsvp(events[r.id], r.doc, r.c, r.arg) :
               /\ events' = [events EXCEPT ![r.id] = w.doc]
               /\ IF w.ok THEN Respond(p, r, 200, r.arg) ELSE Respond(p, r, 500, "")
  /\ UNCHANGED <<users, nextUserId, nextEventId, inflight, now>>

\* POST /api/events/:id/favorite up to the call of event.save().
FavoriteLoad(p) ==
  /\ At(p, "favorite", "authed")
  /\ LET r == pending[p]
     IN IF r.id \notin DOMAIN events THEN Respond(p, r, 404, "")
        ELSE /\ events[r.id].version < MaxVersion
             /\ Suspend(p, [r EXCEPT !.phase = "loaded", !.doc = events[r.id]])
  /\ UNCHANGED <<users, nextUserId, events, nextEventId, inflight, now>>

\* POST /api/events/:id/favorite: event.save() and the response.
FavoriteSave(p) ==
  /\ At(p, "favorite", "loaded")
  /\ LET r == pending[p]
     IN IF r.id \notin DOMAIN events
        THEN Respond(p, r, 500, "") /\ UNCHANGED events
        ELSE \E w \in SaveFavorite(events[r.id], r.doc, r.c, r.arg) :
               /\ events' = [events EXCEPT ![r.id] = w.doc]
               /\ IF w.ok THEN Respond(p, r, 200, IF r.arg THEN "true" ELSE "false")
                  ELSE Respond(p, r, 500, "")
  /\ UNCHANGED <<users, nextUserId, nextEventId, inflight, now>>

\* POST /api/events/:id/comments up to the call of event.save().
CommentLoad(p) ==
  /\ At(p, "comment", "authed")
  /\ LET r == pending[p]
     IN IF Len(trim(r.arg)) = 0 THEN Respond(p, r, 400, "") /\ UNCHANGED now
        ELSE IF Len(r.arg) > 500 THEN Respond(p, r, 400, "") /\ UNCHANGED now
        ELSE IF r.id \notin DOMAIN events
        THEN Respond(p, r, 404, "") /\ UNCHANGED now
        ELSE /\ now <= MaxClock
             /\ events[r.id].version < MaxVersion
             /\ Suspend(p, [r EXCEPT !.phase = "loaded", !.t = now])
             /\ now' = Tick
  /\ UNCHANGED <<users, nextUserId, events, nextEventId, inflight>>

\* CommentSave writing the comment in place of the stored ones.
CommentSaveReplacing(p) ==
  /\ At(p, "comment", "loaded")
  /\ LET r == pending[p]
     IN IF r.id \notin DOMAIN events
        THEN Respond(p, r, 500, "") /\ UNCHANGED events
        ELSE /\ events' = [events EXCEPT ![r.id] =
                  SaveComment([@ EXCEPT !.comments = <<>>], r.c, r.username, r.arg, r.t)]
             /\ Respond(p, r, 201, "")
  /\ UNCHANGED <<users, nextUserId, nextEventId, inflight, now>>

\* POST /api/events/:id/comments: event.save() and the response.
CommentSave(p) ==
  /\ At(p, "comment", "loaded")
  /\ LET r == pending[p]
     IN IF r.id \notin DOMAIN events
        THEN Respond(p, r, 500, "") /\ UNCHANGED events
        ELSE /\ events' = [events EXCEPT ![r.id] =
                             SaveComment(@, r.c, r.username, r.arg, r.t)]
             /\ Respond(p, r, 201, "")
  /\ UNCHANGED <<users, nextUserId, nextEventId, inflight, now>>

\* GET /api/events/:id/comments: sorts the comments of the loaded copy,
\* newest first, and stores nothing.
ListComments(eid) ==
  /\ res' = Response("listComments", IF eid \in DOMAIN events THEN 200 ELSE 404, "")
  /\ UNCHANGED <<users, nextUserId, events, nextEventId, inflight, now, pending>>

\* DELETE /api/events/clear-all/confirm: no guard.
ClearAll ==
  /\ events' = <<>>
  /\ res' = Response("clearAll", 200, "")
  /\ UNCHANGED <<users, nextUserId, nextEventId, inflight, now, pending>>

\* OwnedBy matching no event.
OwnedByNone(uid) == {}

\* Event.deleteMany({organizer_id: uid}): the events the filter matches.
OwnedBy(uid) == {e \in DOMAIN events : events[e].organizer_id = uid}

\* DELETE /api/admin/users/:id: the self test and User.findById.
AdminFind(p) ==
  /\ At(p, "adminDeleteUser", "authed")
  /\ LET r == pending[p]
     IN IF r.id = r.c THEN Respond(p, r, 400, "")
        ELSE IF r.id \notin DOMAIN users THEN Respond(p, r, 404, "")
        ELSE Suspend(p, [r EXCEPT !.phase = "found"])
  /\ UNCHANGED <<users, nextUserId, events, nextEventId, inflight, now>>

\* DELETE /api/admin/users/:id: Event.deleteMany.
AdminCascade(p) ==
  /\ At(p, "adminDeleteUser", "found")
  /\ events' = Without(events, OwnedBy(pending[p].id))
  /\ Suspend(p, [pending[p] EXCEPT !.phase = "cascaded"])
  /\ UNCHANGED <<users, nextUserId, nextEventId, inflight, now>>

\* DELETE /api/admin/users/:id: User.findByIdAndDelete and the response.
AdminRemove(p) ==
  /\ At(p, "adminDeleteUser", "cascaded")
  /\ users' = Without(users, {pending[p].id})
  /\ Respond(p, pending[p], 200, "")
  /\ UNCHANGED <<nextUserId, events, nextEventId, inflight, now>>

\* DELETE /api/admin/events/:id: Event.findById.
AdminEventFind(p) ==
  /\ At(p, "adminDeleteEvent", "authed")
  /\ LET r == pending[p]
     IN IF r.id \notin DOMAIN events THEN Respond(p, r, 404, "")
        ELSE Suspend(p, [r EXCEPT !.phase = "found"])
  /\ UNCHANGED <<users, nextUserId, events, nextEventId, inflight, now>>

\* DELETE /api/admin/events/:id: Event.findByIdAndDelete and the response.
AdminEventRemove(p) ==
  /\ At(p, "adminDeleteEvent", "found")
  /\ events' = Without(events, {pending[p].id})
  /\ Respond(p, pending[p], 200, "")
  /\ UNCHANGED <<users, nextUserId, nextEventId, inflight, now>>

\* POST /api/auth/login up to the call of comparePassword: validation and
\* User.findOne.
LoginFind(p, body) ==
  /\ Free(p)
  /\ LET r == Request("login", Anonymous, 0, body)
         l == LoginLookup(users, body)
     IN IF l.status # 0
        THEN Respond(p, r, l.status, l.msg)
        ELSE Suspend(p, [r EXCEPT !.phase = "found", !.id = l.id, !.doc = users[l.id]])
  /\ UNCHANGED <<users, nextUserId, events, nextEventId, inflight, now>>

\* POST /api/auth/login: comparePassword on the loaded user, and new Date().
LoginCompare(p) ==
  /\ At(p, "login", "found")
  /\ LET r == pending[p]
         l == LoginCheck(r.doc, r.arg.password)
     IN IF l.status # 0
        THEN Respond(p, r, l.status, l.msg) /\ UNCHANGED now
        ELSE /\ now <= MaxClock
             /\ Suspend(p, [r EXCEPT !.phase = "loaded", !.t = now])
             /\ now' = Tick
  /\ UNCHANGED <<users, nextUserId, events, nextEventId, inflight>>

\* POST /api/auth/login: user.save() and the response.
LoginSave(p) ==
  /\ At(p, "login", "loaded")
  /\ LET r == pending[p]
     IN IF r.id \notin DOMAIN users
        THEN Respond(p, r, 500, "unable") /\ UNCHANGED users
        ELSE /\ users' = [users EXCEPT ![r.id].lastLogin = r.t]
             /\ Respond(p, r, 200, "token")
  /\ UNCHANGED <<nextUserId, events, nextEventId, inflight, now>>

(***************************************************************************)
(* createAdmin, the script an operator runs against the same store. Its    *)
(* exit code stands where a request has its status.                         *)
(***************************************************************************)
\* The prompts and User.findOne({$or: [{email}, {username}]}), lines 25-37.
ScriptFind(p, a) ==
  /\ Free(p)
  /\ LET r == Request("createAdmin", Anonymous, 0, a)
         existing == {id \in DOMAIN users :
                        users[id].email = a.email \/ users[id].username = a.username}
     IN IF existing = {} THEN Suspend(p, [r EXCEPT !.phase = "insert"])
        ELSE IF users[SetMin(existing)].isAdmin
        THEN Respond(p, r, 0, "exists")
        ELSE Suspend(p, [r EXCEPT !.phase = "asked", !.id = SetMin(existing)])
  /\ UNCHANGED <<users, nextUserId, events, nextEventId, inflight, now>>

\* The operator's answer to the makeAdmin question, lines 39-42.
ScriptAnswer(p) ==
  /\ At(p, "createAdmin", "asked")
  /\ LET r == pending[p]
     IN IF r.arg.makeAdmin
        THEN Suspend(p, [r EXCEPT !.phase = "promote"])
        ELSE Respond(p, r, 0, "exists")
  /\ UNCHANGED <<users, nextUserId, events, nextEventId, inflight, now>>

\* existingUser.save() after isAdmin = true, line 43.
ScriptPromote(p) ==
  /\ At(p, "createAdmin", "promote")
  /\ LET r == pending[p]
     IN IF r.id \notin DOMAIN users
        THEN Respond(p, r, 1, "error") /\ UNCHANGED users
        ELSE /\ users' = [users EXCEPT ![r.id].isAdmin = TRUE]
             /\ Respond(p, r, 0, "promoted")
  /\ UNCHANGED <<nextUserId, events, nextEventId, inflight, now>>

\* admin.save() of the new account, lines 53-61.
ScriptInsert(p) ==
  /\ At(p, "createAdmin", "insert")
  /\ LET r == pending[p]
     IN IF DuplicateKeys(users, r.arg.username, r.arg.email) # {}
        THEN Respond(p, r, 1, "error") /\ UNCHANGED <<users, nextUserId>>
        ELSE /\ nextUserId <= MaxUsers
             /\ users' = (nextUserId :> NewAdmin(r.arg)) @@ users
             /\ nextUserId' = nextUserId + 1
             /\ Respond(p, r, 0, "created")
  /\ UNCHANGED <<events, nextEventId, inflight, now>>

(***************************************************************************)
(* Inputs of the event handlers                                            *)
(***************************************************************************)
GoodDate == <<"2", "0", "2", "6", "-", "0", "1", "-", "0", "2">>
EventBody(title) ==
  [title |-> title, category |-> "sports", date |-> GoodDate,
   location |-> <<"g", "y", "m">>, keys |-> {"title", "category", "date", "location"},
   attendees_going |-> 7, organizer_id |-> 1]

\* Bodies of POST /api/events: a valid one, one with a title too short and
\* one carrying a key the schema does not know.
CreateBodies ==
  { EventBody(<<"r", "u", "n">>), EventBody(<<"g", "o">>),
    [EventBody(<<"r", "u", "n">>) EXCEPT !.keys = @ \cup {"attendees_going"}] }

\* Bodies of PUT /api/events/:id: a valid one with another title, and one
\* with a title too short.
UpdateBodies == { EventBody(<<"s", "w", "i", "m">>), EventBody(<<"g", "o">>) }

StatusInputs == RsvpStatuses \cup {"maybe"}
\* The ids a request may name: those ever issued and one never issued.
EventIds == 1..nextEventId
UserIds == 1..nextUserId

\* The registration of the interaction specifications: one ordinary account.
InteractBodies == { Body(<<"b", "o", "b">>, <<"b", "@", "x", ".", "i", "o">>) }

(***************************************************************************)
(* Specifications                                                          *)
(***************************************************************************)
\* No request is between two of its store calls.
Quiet ==
  /\ \A q \in 1..MaxInflight : Free(q)
  /\ \A q \in 1..MaxInflight : inflight[q].phase # "looked"

\* What the operator of createAdmin answers: a new account, root's own, and
\* bob's, written as bob registered them and in another case.
ScriptAnswers ==
  { Answers(<<"r", "o", "o", "t">>, <<"r", "@", "x", ".", "i", "o">>, TRUE),
    Answers(<<"b", "o", "b">>, <<"b", "@", "x", ".", "i", "o">>, TRUE),
    Answers(<<"b", "o", "b">>, <<"b", "@", "x", ".", "i", "o">>, FALSE),
    Answers(<<"B", "o", "b">>, <<"B", "@", "x", ".", "i", "o">>, TRUE) }

\* The ids of root and of bob, the slots of their requests.
Root == 1
Member == 2

\* Event lifecycle and admin console: root's requests, one after the
\* other, among bob's, one after the other.
Next ==
  \/ \E c \in {Anonymous, Root, Member}, body \in CreateBodies :
       Auth(IF c = Member THEN Member ELSE Root, "createEvent", c, 0, body)
  \/ \E p \in {Root, Member} : CreateSave(p)
  \/ \E c \in {Root, Member}, eid \in EventIds, body \in UpdateBodies :
       Auth(c, "updateEvent", c, eid, body)
  \/ \E p \in {Root, Member} : UpdateLoad(p)
  \/ \E p \in {Root, Member} : UpdateSave(p)
  \/ \E c \in {Root, Member}, eid \in EventIds : Auth(c, "deleteEvent", c, eid, "")
  \/ \E p \in {Root, Member} : DeleteLoad(p)
  \/ \E p \in {Root, Member} : DeleteRemove(p)
  \/ ClearAll
  \/ \E c \in {Root, Member}, eid \in EventIds : AdminAuth(c, "adminDeleteEvent", c, eid)
  \/ AdminEventFind(Root)
  \/ AdminEventRemove(Root)

Spec == InitPair /\ [][Next]_vars

\* The RSVP handler among the lifecycle handlers, on up to InteractEvents
\* events, each request sent after the one before it was answered.
NextRsvp ==
  \/ \E p \in 1..MaxInflight, c \in Callers, body \in CreateBodies :
       Quiet /\ Auth(p, "createEvent", c, 0, body)
  \/ \E p \in 1..MaxInflight :
       /\ At(p, "createEvent", "authed")
       /\ nextEventId <= InteractEvents \/ ~eventSchema(pending[p].arg)
       /\ CreateSave(p)
  \/ \E p \in 1..MaxInflight, c \in Callers, eid \in EventIds, body \in UpdateBodies :
       Quiet /\ Auth(p, "updateEvent", c, eid, body)
  \/ \E p \in 1..MaxInflight : UpdateLoad(p)
  \/ \E p \in 1..MaxInflight : UpdateSave(p)
  \/ \E p \in 1..MaxInflight, c \in Callers, eid \in EventIds :
       Quiet /\ Auth(p, "deleteEvent", c, eid, "")
  \/ \E p \in 1..MaxInflight : DeleteLoad(p)
  \/ \E p \in 1..MaxInflight : DeleteRemove(p)
  \/ \E p \in 1..MaxInflight, c \in Callers, eid \in EventIds, s \in StatusInputs :
       Quiet /\ Auth(p, "rsvp", c, eid, s)
  \/ \E p \in 1..MaxInflight : RsvpLoad(p)
  \/ \E p \in 1..MaxInflight : RsvpSave(p)

SpecRsvp == InitPair /\ [][NextRsvp]_vars

\* The RSVP handler, requests among each other, on up to InteractEvents
\* events.
NextRsvpAny ==
  \/ \E p \in 1..MaxInflight, c \in Callers :
       Auth(p, "createEvent", c, 0, EventBody(<<"r", "u", "n">>))
  \/ \E p \in 1..MaxInflight : nextEventId <= InteractEvents /\ CreateSave(p)
  \/ \E p \in 1..MaxInflight, c \in Callers, eid \in EventIds,
        s \in {"going", "not_going"} :
       Auth(p, "rsvp", c, eid, s)
  \/ \E p \in 1..MaxInflight : RsvpLoad(p)
  \/ \E p \in 1..MaxInflight : RsvpSave(p)

SpecRsvpAny == InitPair /\ [][NextRsvpAny]_vars

\* No RSVP request of caller c is in flight.
NoRsvpOf(c) == \A q \in 1..MaxInflight : ~(pending[q].op = "rsvp" /\ pending[q].c = c)

\* The RSVP handler, requests of distinct users among each other.
NextRsvpRace ==
  \/ \E p \in 1..MaxInflight, c \in Callers :
       Auth(p, "createEvent", c, 0, EventBody(<<"r", "u", "n">>))
  \/ \E p \in 1..MaxInflight : nextEventId <= InteractEvents /\ CreateSave(p)
  \/ \E p \in 1..MaxInflight, c \in Callers, eid \in EventIds,
        s \in {"going", "not_going"} :
       NoRsvpOf(c) /\ Auth(p, "rsvp", c, eid, s)
  \/ \E p \in 1..MaxInflight : RsvpLoad(p)
  \/ \E p \in 1..MaxInflight : RsvpSave(p)

SpecRsvpRace == InitPair /\ [][NextRsvpRace]_vars

\* The favorite handler and the creation of events.
NextFavorite ==
  \/ \E p \in 1..MaxInflight, c \in Callers :
       Auth(p, "createEvent", c, 0, EventBody(<<"r", "u", "n">>))
  \/ \E p \in 1..MaxInflight : nextEventId <= InteractEvents /\ CreateSave(p)
  \/ \E p \in 1..MaxInflight, c \in Callers, eid \in EventIds, f \in BOOLEAN :
       Auth(p, "favorite", c, eid, f)
  \/ \E p \in 1..MaxInflight : FavoriteLoad(p)
  \/ \E p \in 1..MaxInflight : FavoriteSave(p)

SpecFavorite == InitPair /\ [][NextFavorite]_vars

\* Bodies of POST /api/auth/login: a known email as registered and in
\* another case, an unknown one and one that is no email; the right password
\* and a wrong one.
LoginEmails ==
  { <<"b", "@", "x", ".", "i", "o">>, <<"B", "@", "x", ".", "i", "o">>,
    <<"z", "@", "x", ".", "i", "o">>, <<"b", "x", ".", "i", "o">> }
LoginPasswords == { GoodPassword, <<"n", "o", "p", "e">> }
LoginBodies == {[email |-> e, password |-> pw] : e \in LoginEmails, pw \in LoginPasswords}

\* The slot of the createAdmin script and the slot of the logins; the
\* admin's deletions take either.
Operator == Root
Visitor == Member

\* Login among registration, createAdmin and the admin's deletion of users.
NextLogin ==
  \/ \E body \in InteractBodies : RegisterFind(1, body)
  \/ RegisterSave(1)
  \/ \E body \in LoginBodies : LoginFind(Visitor, body)
  \/ LoginCompare(Visitor)
  \/ LoginSave(Visitor)
  \/ \E a \in ScriptAnswers : ScriptFind(Operator, a)
  \/ ScriptAnswer(Operator)
  \/ ScriptPromote(Operator)
  \/ ScriptInsert(Operator)
  \/ \E p \in {Operator, Visitor}, uid \in UserIds :
       AdminAuth(p, "adminDeleteUser", Root, uid)
  \/ \E p \in {Operator, Visitor} : AdminFind(p)
  \/ \E p \in {Operator, Visitor} : AdminCascade(p)
  \/ \E p \in {Operator, Visitor} : AdminRemove(p)

SpecLogin == Init /\ [][NextLogin]_vars

\* The inputs sent where every event handler runs: root creates the event,
\* root and bob send updates and deletes, bob the other requests.
InteractStatuses == {"going", "maybe"}
InteractTexts ==
  { <<" ", "h", "i", " ">>, <<" ", " ">>, [i \in 1..501 |-> IF i = 501 THEN "x" ELSE " "] }
InteractCreates ==
  { EventBody(<<"r", "u", "n">>),
    [EventBody(<<"r", "u", "n">>) EXCEPT !.keys = @ \cup {"attendees_going"}] }
InteractUpdates ==
  { EventBody(<<"s", "w", "i", "m">>),
    [EventBody(<<"s", "w", "i", "m">>) EXCEPT !.keys = @ \cup {"organizer_id"},
                                        !.organizer_id = 2] }
\* Every event handler, on up to InteractEvents events; root's requests, one
\* after the other, among bob's, one after the other.
NextInteract ==
  \/ \E c \in {Anonymous, Root}, body \in InteractCreates :
       Auth(Root, "createEvent", c, 0, body)
  \/ /\ At(Root, "createEvent", "authed")
     /\ nextEventId <= InteractEvents \/ ~eventSchema(pending[Root].arg)
     /\ CreateSave(Root)
  \/ \E c \in {Root, Member}, eid \in EventIds, body \in InteractUpdates :
       Auth(c, "updateEvent", c, eid, body)
  \/ \E p \in {Root, Member} : UpdateLoad(p)
  \/ UpdateSave(Root)
  \/ \E c \in {Root, Member}, eid \in EventIds : Auth(c, "deleteEvent", c, eid, "")
  \/ \E p \in {Root, Member} : DeleteLoad(p)
  \/ DeleteRemove(Root)
  \/ \E eid \in EventIds, s \in InteractStatuses : Auth(Member, "rsvp", Member, eid, s)
  \/ RsvpLoad(Member)
  \/ RsvpSave(Member)
  \/ \E eid \in EventIds, f \in BOOLEAN : Auth(Member, "favorite", Member, eid, f)
  \/ FavoriteLoad(Member)
  \/ FavoriteSave(Member)
  \/ \E c \in {Root, Member}, eid \in EventIds, text \in InteractTexts :
       Auth(c, "comment", c, eid, text)
  \/ \E p \in {Root, Member} : CommentLoad(p)
  \/ \E p \in {Root, Member} : CommentSave(p)
  \/ \E eid \in EventIds : ListComments(eid)

SpecInteract == InitPair /\ [][NextInteract]_vars

\* Registration, each request sent after the one before it was answered.
NextAuth ==
  \/ \E body \in RegBodies : Quiet /\ RegisterFind(1, body)
  \/ RegisterSave(1)

SpecAuth == Init /\ [][NextAuth]_vars

\* The creation of events among the admin's deletions of users.
NextOrphan ==
  \/ \E p \in 1..MaxInflight, c \in Callers, body \in CreateBodies :
       Auth(p, "createEvent", c, 0, body)
  \/ \E p \in 1..MaxInflight : CreateSave(p)
  \/ \E p \in 1..MaxInflight, c \in Callers, uid \in UserIds :
       AdminAuth(p, "adminDeleteUser", c, uid)
  \/ \E p \in 1..MaxInflight : AdminFind(p)
  \/ \E p \in 1..MaxInflight : AdminCascade(p)
  \/ \E p \in 1..MaxInflight : AdminRemove(p)

SpecOrphan == InitPair /\ [][NextOrphan]_vars

\* Bodies of registrations that collide.
RaceBodies ==
  {Body(u, e) : u \in { <<"b", "o", "b">>, <<"B", "o", "b">> },
                e \in { <<"a", "@", "x", ".", "i", "o">>, <<"A", "@", "x", ".", "i", "o">>,
                        <<"b", "@", "x", ".", "i", "o">> }}

\* Registration requests among each other, each slot taking one.
NextRace ==
  \/ \E p \in 1..MaxInflight, body \in RaceBodies :
       inflight[p].phase = "idle" /\ RegisterFind(p, body)
  \/ \E p \in 1..MaxInflight : RegisterSave(p)

SpecRace == Init /\ [][NextRace]_vars

(***************************************************************************)
(* Properties                                                              *)
(***************************************************************************)
CountStatus(ev, st) == Cardinality({i \in 1..Len(ev.rsvps) : ev.rsvps[i].status = st})
EntriesOf(ev, uid) == {i \in 1..Len(ev.rsvps) : ev.rsvps[i].user_id = uid}

\* The request of slot p, of route op and in phase phase, is answered by
\* this step.
Ends(p, op, phase) == At(p, op, phase) /\ pending'[p].phase = "idle"

\* C1: for every event, attendees_going is the number of rsvps entries with
\* status 'going' and attendees_interested the number with status
\* 'interested', after any sequence of accepted or rejected RSVP requests,
\* each sent after the one before it was answered.
C1_CountersMatchRsvps ==
  \A e \in DOMAIN events :
    /\ events[e].attendees_going = CountStatus(events[e], "going")
    /\ events[e].attendees_interested = CountStatus(events[e], "interested")

\* An RSVP request was just rejected on an event two users have answered,
\* one 'going' and one 'interested'.
C1_Witness ==
  /\ res.op = "rsvp" /\ res.status = 400
  /\ \E e \in DOMAIN events :
       /\ Len(events[e].rsvps) = 2
       /\ events[e].attendees_going = 1
       /\ events[e].attendees_interested = 1

\* C2: an event's rsvps holds at most one entry per user id, in every state
\* RSVP requests lead to.
C2_OneEntryPerUser ==
  \A e \in DOMAIN events :
    \A i, j \in 1..Len(events[e].rsvps) :
      events[e].rsvps[i].user_id = events[e].rsvps[j].user_id => i = j

\* C3: a PUT or DELETE on an existing event by an authenticated user who is
\* not its organizer answers 403 and leaves the event as it was, whatever the
\* payload.
C3_NonOwnerForbidden ==
  [][\A p \in 1..MaxInflight :
       ( /\ pending[p].phase = "authed"
         /\ pending[p].op \in {"updateEvent", "deleteEvent"}
         /\ pending[p].id \in DOMAIN events
         /\ events[pending[p].id].organizer_id # pending[p].c
         /\ pending'[p].phase # "authed" )
       => /\ res' = Response(pending[p].op, 403, "")
          /\ events' = events]_vars

\* C4: an event leaves the store only by its organizer's delete request or by
\* the admin's deletion of its owner.
C4_RemovedOnlyByOwnerOrCascade ==
  [][\A e \in DOMAIN events :
       e \notin DOMAIN events'
       => \E p \in 1..MaxInflight :
            \/ /\ Ends(p, "deleteEvent", "loaded")
               /\ pending[p].id = e
               /\ pending[p].c = events[e].organizer_id
            \/ /\ At(p, "adminDeleteUser", "found")
               /\ pending[p].id = events[e].organizer_id]_vars

SeqOfOthers(ev, uid) ==
  LET NotMine(r) == r.user_id # uid IN SelectSeq(ev.rsvps, NotMine)
SeqOfMine(ev, uid) ==
  LET IsMine(r) == r.user_id = uid IN SelectSeq(ev.rsvps, IsMine)
StatusOf(ev, uid) ==
  IF SeqOfMine(ev, uid) = <<>> THEN "" ELSE SeqOfMine(ev, uid)[1].status
Bump(b) == IF b THEN 1 ELSE 0

\* C5: a successful RSVP request by user c with status s on event eid leaves
\* the other users' entries as they were, leaves c with exactly the entry
\* {c, s} when s is 'going' or 'interested' and with none otherwise, lowers the
\* counter of c's former status by one and raises the counter of s by one.
C5_RsvpTransition ==
  [][\A p \in 1..MaxInflight :
       (Ends(p, "rsvp", "loaded") /\ res'.status = 200)
       => LET c == pending[p].c
              s == pending[p].arg
              eid == pending[p].id
          IN /\ DOMAIN events' = DOMAIN events
             /\ SeqOfOthers(events'[eid], c) = SeqOfOthers(events[eid], c)
             /\ SeqOfMine(events'[eid], c) =
                  IF s \in {"going", "interested"}
                  THEN <<[user_id |-> c, status |-> s]>> ELSE <<>>
             /\ events'[eid].attendees_going =
                  events[eid].attendees_going
                    - Bump(StatusOf(events[eid], c) = "going") + Bump(s = "going")
             /\ events'[eid].attendees_interested =
                  events[eid].attendees_interested
                    - Bump(StatusOf(events[eid], c) = "interested")
                    + Bump(s = "interested")]_vars

Membership(ev) == {ev.rsvps[i] : i \in 1..Len(ev.rsvps)}

\* C6: an RSVP request that repeats the one its sender made last, with
\* nothing stored in between, leaves the membership of rsvps and the two
\* counters as they were, and its sender holds exactly one entry when the
\* status is 'going' or 'interested' (none otherwise).
C6_RsvpIdempotent ==
  [][\A p \in 1..MaxInflight :
       ( /\ Ends(p, "rsvp", "loaded") /\ res'.status = 200
         /\ pending[p].doc = events[pending[p].id]
         /\ StatusOf(events[pending[p].id], pending[p].c) =
              (IF pending[p].arg \in {"going", "interested"} THEN pending[p].arg ELSE "") )
       => LET c == pending[p].c
              eid == pending[p].id
          IN /\ Membership(events'[eid]) = Membership(events[eid])
             /\ events'[eid].attendees_going = events[eid].attendees_going
             /\ events'[eid].attendees_interested = events[eid].attendees_interested
             /\ Cardinality(EntriesOf(events'[eid], c)) =
                  Bump(pending[p].arg \in {"going", "interested"})]_vars

NoDuplicateFavorites ==
  \A e \in DOMAIN events :
    \A i, j \in 1..Len(events[e].favorites) :
      events[e].favorites[i] = events[e].favorites[j] => i = j

InFavorites(ev, uid) == \E i \in 1..Len(ev.favorites) : ev.favorites[i] = uid

\* C7: favorites holds each user id at most once; favoriting by a user
\* already in favorites and unfavoriting by a user not in favorites leave the
\* collection as it was.
C7_FavoriteSet ==
  [][/\ NoDuplicateFavorites'
     /\ \A p \in 1..MaxInflight :
          ( /\ Ends(p, "favorite", "loaded") /\ res'.status = 200
            /\ pending[p].arg = InFavorites(events[pending[p].id], pending[p].c) )
          => events'[pending[p].id].favorites = events[pending[p].id].favorites]_vars

\* C8: an admin's deletion of another existing user removes, at its cascade,
\* exactly the events that user owns and, at its end, exactly that user, and
\* changes nothing else; no event changes its owner; a deletion of the
\* admin's own account answers 400 and deletes nothing.
C8_AdminDeleteCascade ==
  [][/\ \A p \in 1..MaxInflight :
          /\ (At(p, "adminDeleteUser", "authed") /\ pending'[p].phase # "authed")
               => /\ users' = users /\ events' = events
                  /\ pending[p].id = pending[p].c => res' = Response("adminDeleteUser", 400, "")
                  /\ pending'[p].phase = "found"
                       => pending[p].id # pending[p].c /\ pending[p].id \in DOMAIN users
          /\ (At(p, "adminDeleteUser", "found") /\ pending'[p].phase # "found")
               => /\ pending'[p].phase = "cascaded"
                  /\ DOMAIN events' =
                       {e \in DOMAIN events : events[e].organizer_id # pending[p].id}
                  /\ \A e \in DOMAIN events' : events'[e] = events[e]
                  /\ users' = users
          /\ Ends(p, "adminDeleteUser", "cascaded")
               => /\ res' = Response("adminDeleteUser", 200, "")
                  /\ DOMAIN users' = DOMAIN users \ {pending[p].id}
                  /\ \A u \in DOMAIN users' : users'[u] = users[u]
                  /\ events' = events
     /\ \A e \in DOMAIN events \cap DOMAIN events' :
          events'[e].organizer_id = events[e].organizer_id]_vars

\* A user was just deleted; of the two events created, the admin's remains.
C8_Witness ==
  /\ res = Response("adminDeleteUser", 200, "")
  /\ nextEventId = 3
  /\ Cardinality(DOMAIN events) = 1
  /\ \A e \in DOMAIN events : events[e].organizer_id \in DOMAIN users
  /\ DOMAIN users = {1}

SameFolded(a, b) == toLowerCase(a) = toLowerCase(b)

UniqueCaseInsensitive ==
  \A i, j \in DOMAIN users :
    i # j => /\ ~SameFolded(users[i].username, users[j].username)
             /\ ~SameFolded(users[i].email, users[j].email)

\* C9: no two stored users have usernames or emails equal under
\* case-insensitive comparison, and a well-formed registration whose email
\* differs only by case from a registered one answers 409 and creates no user.
C9_RegistrationUnique ==
  [][/\ UniqueCaseInsensitive'
     /\ \A body \in RegBodies :
          ( /\ registerSchema(body)
            /\ \E id \in DOMAIN users :
                 /\ users[id].email # trim(body.email)
                 /\ SameFolded(users[id].email, trim(body.email))
            /\ RegisterFind(1, body) )
          => res'.status = 409 /\ users' = users]_vars

Collide(a, b) ==
  SameFolded(a.username, b.username) \/ SameFolded(a.email, b.email)

\* C10: of two colliding registrations, the only ones sent, that both
\* passed the lookup before either inserted, at most one creates a user and
\* the other answers 409 naming a colliding field, never 500.
C10_RaceArbitrated ==
  \A p, q \in 1..MaxInflight :
    ( /\ p # q
      /\ inflight[p].phase = "done" /\ inflight[q].phase = "done"
      /\ inflight[p].l.kind = "free" /\ inflight[q].l.kind = "free"
      /\ \A r \in 1..MaxInflight \ {p, q} : inflight[r].phase = "idle"
      /\ Collide(inflight[p].l, inflight[q].l) )
    => /\ ~(inflight[p].status = 201 /\ inflight[q].status = 201)
       /\ Cardinality(DOMAIN users) <= Cardinality(DOMAIN users \cap {Root}) + 1
       /\ \E r \in {p, q} :
            /\ inflight[r].status = 409
            /\ inflight[r].msg \in
                 (IF SameFolded(inflight[p].l.username, inflight[q].l.username)
                  THEN {"username"} ELSE {})
                 \cup (IF SameFolded(inflight[p].l.email, inflight[q].l.email)
                       THEN {"email"} ELSE {})

\* Two registrations whose usernames differ only by case both found nobody;
\* one was then stored and the other refused.
C10_Witness ==
  \E p, q \in 1..MaxInflight :
    /\ inflight[p].phase = "done" /\ inflight[q].phase = "done"
    /\ inflight[p].l.kind = "free" /\ inflight[q].l.kind = "free"
    /\ inflight[p].l.username # inflight[q].l.username
    /\ inflight[p].l.email # inflight[q].l.email
    /\ ~SameFolded(inflight[p].l.email, inflight[q].l.email)
    /\ inflight[p].status = 201
    /\ inflight[q].status = 409 /\ inflight[q].msg = "username"
    /\ Cardinality(DOMAIN users) = 2

\* C11: a well-formed login naming an email no user holds and a well-formed
\* login naming a held email with a wrong password get the same status (401)
\* and the same message, and neither changes a user record; lastLogin
\* changes only when a login succeeds (200).
C11_LoginUniform ==
  /\ [](\A b1 \in LoginBodies :
          (loginSchema(b1) /\ FindByEmail(users, NormEmail(b1)) = {})
          => /\ LoginLookup(users, b1).status = 401
             /\ \A id \in DOMAIN users, pw \in LoginPasswords :
                  ~ComparePassword(users[id].password, pw)
                  => LoginCheck(users[id], pw) =
                       [status |-> 401, msg |-> LoginLookup(users, b1).msg])
  /\ [][/\ (res'.op = "login" /\ res'.status # 200 /\ pending' = pending)
            => \A p \in 1..MaxInflight, body \in LoginBodies :
                 (LoginFind(p, body) /\ LoginLookup(users, body).status # 0)
                 => /\ res' = Response("login", LoginLookup(users, body).status,
                                       LoginLookup(users, body).msg)
                    /\ users' = users
        /\ \A p \in 1..MaxInflight :
             Ends(p, "login", "found")
             => /\ res' = Response("login", 401,
                            LoginCheck(pending[p].doc, pending[p].arg.password).msg)
                /\ ~ComparePassword(pending[p].doc.password, pending[p].arg.password)
                /\ users' = users
        /\ \A u \in DOMAIN users \cap DOMAIN users' :
             users'[u].lastLogin # users[u].lastLogin
             => /\ res' = Response("login", 200, "token")
                /\ \E p \in 1..MaxInflight :
                     Ends(p, "login", "loaded") /\ pending[p].id = u]_vars

\* A login was just refused after bob had logged in.
C11_Witness ==
  /\ res = Response("login", 401, "invalid")
  /\ \E u \in DOMAIN users : users[u].lastLogin # Never

\* C12: a request to the event endpoints that answers 400, 403 or 404 does so
\* before any of its writes and leaves the events as they were; an RSVP
\* whose status is none of the four answers 400.
C12_ErrorsLeaveStore ==
  [][/\ \A p \in 1..MaxInflight :
          /\ (pending[p].phase # "idle" /\ pending'[p].phase = "idle"
                /\ res'.status \in {400, 403, 404})
               => /\ pending[p].phase = "authed"
                  /\ res'.op = pending[p].op
                  /\ events' = events
          /\ (pending[p].phase = "authed" /\ pending'[p].phase # "authed")
               => \/ events' = events
                  \/ pending[p].op = "createEvent" /\ res'.status = 201
          /\ (At(p, "rsvp", "authed") /\ pending'[p].phase # "authed"
                /\ pending[p].arg \notin RsvpStatuses)
               => res' = Response("rsvp", 400, "")
     /\ (res'.op = "listComments" /\ res' # res) => events' = events]_vars

\* An RSVP with an unknown status was just refused on an event that holds an
\* entry and a comment.
C12_Witness ==
  /\ res = Response("rsvp", 400, "")
  /\ \E e \in DOMAIN events :
       Len(events[e].rsvps) = 1 /\ Len(events[e].comments) = 1

IsPrefix(s, t) == Len(s) <= Len(t) /\ SubSeq(t, 1, Len(s)) = s

\* C13: while an event exists its stored comments stay, in their order and
\* as they were; only a successful comment post adds to them, and it adds
\* one comment with the poster's id, username and trimmed text.
C13_CommentsAppendOnly ==
  [][/\ \A e \in DOMAIN events \cap DOMAIN events' :
          /\ IsPrefix(events[e].comments, events'[e].comments)
          /\ events'[e].comments # events[e].comments
               => \E p \in 1..MaxInflight :
                    /\ Ends(p, "comment", "loaded") /\ pending[p].id = e
                    /\ res' = Response("comment", 201, "")
     /\ \A p \in 1..MaxInflight :
          (Ends(p, "comment", "loaded") /\ res'.status = 201)
          => events'[pending[p].id].comments =
               Append(events[pending[p].id].comments,
                      [user_id |-> pending[p].c,
                       username |-> users[pending[p].c].username,
                       text |-> trim(pending[p].arg),
                       created_at |-> pending[p].t])]_vars

\* An RSVP was just stored on an event that holds two comments.
C13_Witness ==
  /\ res = Response("rsvp", 200, "going")
  /\ \E e \in DOMAIN events :
       /\ Len(events[e].comments) = 2
       /\ events[e].comments[1].text = <<"h", "i">>
       /\ events[e].comments[1].username # events[e].comments[2].username

\* C14: a created event has the requester as organizer_id, both counters 0
\* and empty rsvps, favorites and comments, whatever the body holds; a
\* successful update leaves organizer_id, rsvps, favorites, comments and the
\* counters as they were.
C14_CreateUpdateFrame ==
  [][\A p \in 1..MaxInflight :
       /\ (Ends(p, "createEvent", "authed") /\ res'.status = 201)
            => LET ev == events'[nextEventId]
               IN /\ nextEventId \notin DOMAIN events
                  /\ ev.organizer_id = pending[p].c
                  /\ ev.attendees_going = 0 /\ ev.attendees_interested = 0
                  /\ ev.rsvps = <<>> /\ ev.favorites = <<>> /\ ev.comments = <<>>
       /\ (Ends(p, "updateEvent", "loaded") /\ res'.status = 200)
            => LET old == events[pending[p].id]
                   new == events'[pending[p].id]
               IN /\ new.organizer_id = old.organizer_id
                  /\ new.rsvps = old.rsvps
                  /\ new.favorites = old.favorites
                  /\ new.comments = old.comments
                  /\ new.attendees_going = old.attendees_going
                  /\ new.attendees_interested = old.attendees_interested]_vars

\* An update was just stored on an event that holds an entry, a favorite
\* and a comment.
C14_Witness ==
  /\ res = Response("updateEvent", 200, "")
  /\ \E e \in DOMAIN events :
       /\ events[e].title = <<"s", "w", "i", "m">>
       /\ Len(events[e].rsvps) = 1
       /\ Len(events[e].favorites) = 1
       /\ Len(events[e].comments) = 1

\* C15: an RSVP stored while RSVPs of other users are in flight on the same
\* event leaves what the request leaves when it runs alone on the stored
\* event: the same entries and the counters that count them.
C15_NoLostRsvp ==
  [][\A p \in 1..MaxInflight :
       (Ends(p, "rsvp", "loaded") /\ res'.status = 200)
       => LET alone == ApplyRsvp(events[pending[p].id], pending[p].c, pending[p].arg)
              stored == events'[pending[p].id]
          IN /\ Membership(stored) = Membership(alone)
             /\ Len(stored.rsvps) = Len(alone.rsvps)
             /\ stored.attendees_going = alone.attendees_going
             /\ stored.attendees_interested = alone.attendees_interested]_vars

\* C16: the organizer_id of every stored event names a stored user.
C16_NoOrphanEvents ==
  \A e \in DOMAIN events : events[e].organizer_id \in DOMAIN users

====
